---- MODULE Spec2Model ----
(***************************************************************************)
(* A model of the poker-face backend: the sprint-board deal store and its  *)
(* REST handlers (sprint_api.py), the budget-string parser, the four AI    *)
(* agents with their rule-based fallbacks, the AI trigger helpers, the     *)
(* Gradion lead scorer and the round-robin region assignment engine        *)
(* (vietnam_models.py), and the churn endpoints of main.py with the       *)
(* ChurnPredictor of ai_models.py.                                         *)
(*                                                                         *)
(* Each subsystem has its own specification over its own variables; the    *)
(* variables of the other subsystems stay at their idle value.             *)
(***************************************************************************)
EXTENDS Integers, Sequences, FiniteSets, TLC

VARIABLES
    deals,            \* the deals table: deal id -> row
    persons,          \* the persons table: person id (index) -> role
    status_history,   \* the status_history table, rows in insertion order
    ai_insights,      \* the ai_insights table, rows in insertion order
    response,         \* the HTTP response of the last request
    calls,            \* number of requests served so far
    budget_input,     \* the argument of parse_budget_value, by its parts
    budget_result,    \* <<>> before the call, <<value>> after it
    agent_call,       \* the arguments of an agent's analyze call
    agent_result,     \* <<>> before the call, <<outcome>> after it
    deal_info,        \* deal id -> customer name, budget range, conversation row
    fallback_enabled, \* AI_FALLBACK_ENABLED of the process
    technical_solutions,  \* the technical_solutions table: deal id -> row
    resource_allocations, \* deal ids with a resource_allocations row
    proposals,        \* deal ids with a proposals row
    score_input,      \* the argument of calculate_vietnam_lead_score
    score_result,     \* <<>> before the call, <<outcome>> after it
    current_assignment,   \* RegionAssignmentEngine.current_assignment
    assignment,       \* what the last assign_sql_lead call returned
    assigned_count,   \* sales rep -> leads assigned so far
    assignments,      \* number of assign_sql_lead calls so far
    customers,        \* the customers table: CustomerData.id (index) -> row
    churn_predictions,    \* the churn_predictions table, rows in insertion order
    is_trained        \* churn_predictor.is_trained of the process

dealVars == <<deals, persons, status_history, ai_insights, response, calls>>

budgetVars == <<budget_input, budget_result>>

agentVars == <<agent_call, agent_result>>

insightVars ==
    <<deal_info, fallback_enabled, technical_solutions, resource_allocations, proposals>>

scorerVars == <<score_input, score_result>>

assignVars == <<current_assignment, assignment, assigned_count, assignments>>

churnVars == <<customers, churn_predictions, is_trained>>

vars ==
    <<dealVars, budgetVars, agentVars, insightVars, scorerVars, assignVars, churnVars>>

-----------------------------------------------------------------------------
(* Bounds of the model.                                                    *)

MaxDeals == 2
MaxPos == 1
MaxCalls == 2

-----------------------------------------------------------------------------
(* Python values.  A nullable integer is <<>> (None) or <<n>>; a nullable  *)
(* string is NULL or the string.                                           *)

NULL == "NULL"
None == <<>>
Some(n) == <<n>>
IsNone(x) == x = <<>>
Val(x) == x[1]

Max(a, b) == IF a >= b THEN a ELSE b
Min(a, b) == IF a <= b THEN a ELSE b

RECURSIVE SeqSum(_)
SeqSum(s) == IF s = <<>> THEN 0 ELSE Head(s) + SeqSum(Tail(s))

-----------------------------------------------------------------------------
(* sprint_models.py: the enums.                                            *)

\* DealStatus, in definition order: iterating the enum yields this order.
DealStatus ==
    << [name |-> "LEAD",               value |-> "lead"],
       [name |-> "QUALIFIED_SOLUTION", value |-> "qualified_solution"],
       [name |-> "QUALIFIED_DELIVERY", value |-> "qualified_delivery"],
       [name |-> "QUALIFIED_CSO",      value |-> "qualified_cso"],
       [name |-> "DEAL",               value |-> "deal"],
       [name |-> "PROJECT",            value |-> "project"] >>

DealStatusValues == { DealStatus[i].value : i \in DOMAIN DealStatus }
DealStatusNames == { DealStatus[i].name : i \in DOMAIN DealStatus }

\* DealStatus[name].value
DealStatusByName(n) ==
    DealStatus[CHOOSE i \in DOMAIN DealStatus : DealStatus[i].name = n].value

PriorityValues == {"low", "medium", "high", "urgent"}

PersonRole == {"sales", "head_of_engineering", "head_of_delivery", "cso", "project_manager"}

-----------------------------------------------------------------------------
(* str.lower() and str.upper() on the strings the requests and the store   *)
(* use.                                                                    *)

StrTable ==
    { [s |-> "lead",               lower |-> "lead",               upper |-> "LEAD"],
      [s |-> "qualified_solution", lower |-> "qualified_solution", upper |-> "QUALIFIED_SOLUTION"],
      [s |-> "qualified_delivery", lower |-> "qualified_delivery", upper |-> "QUALIFIED_DELIVERY"],
      [s |-> "qualified_cso",      lower |-> "qualified_cso",      upper |-> "QUALIFIED_CSO"],
      [s |-> "deal",               lower |-> "deal",               upper |-> "DEAL"],
      [s |-> "project",            lower |-> "project",            upper |-> "PROJECT"],
      [s |-> "QUALIFIED_SOLUTION", lower |-> "qualified_solution", upper |-> "QUALIFIED_SOLUTION"],
      [s |-> "Qualified_Delivery", lower |-> "qualified_delivery", upper |-> "QUALIFIED_DELIVERY"],
      [s |-> "DEAL",               lower |-> "deal",               upper |-> "DEAL"],
      [s |-> "Project",            lower |-> "project",            upper |-> "PROJECT"],
      [s |-> "bogus",              lower |-> "bogus",              upper |-> "BOGUS"],
      [s |-> "",                   lower |-> "",                   upper |-> ""] }

str_lower(s) == (CHOOSE r \in StrTable : r.s = s).lower
str_upper(s) == (CHOOSE r \in StrTable : r.s = s).upper

\* The new_status strings a StatusUpdateRequest carries in the model: enum
\* values, member names, mixed case, and two strings that are neither.
StatusRequests ==
    {"lead", "QUALIFIED_SOLUTION", "Qualified_Delivery", "qualified_cso",
     "DEAL", "Project", "bogus", ""}

-----------------------------------------------------------------------------
(* sprint_api.py: helpers.                                                 *)

\* normalize_status on a stored status string (None has no .value: raises).
normalize_status(status) == str_lower(status)

\* A conversion that refuses a move back to the first stage.
ValuesExceptLead(new_status) ==
    IF new_status \in DealStatusValues \ {"lead"} THEN <<new_status>> ELSE <<>>

\* The conversion of new_status at the top of update_deal_status: the
\* DealStatus value <<v>>, or <<>> when both lookups fail.
ParseNewStatus(new_status) ==
    IF new_status \in DealStatusValues
    THEN <<new_status>>
    ELSE IF str_upper(new_status) \in DealStatusNames
         THEN <<DealStatusByName(str_upper(new_status))>>
         ELSE <<>>

RoleMapping ==
    [lead               |-> "sales",
     qualified_solution |-> "head_of_engineering",
     qualified_delivery |-> "head_of_delivery",
     qualified_cso      |-> "cso",
     deal               |-> "sales",
     project            |-> "project_manager"]

\* An assignment that finds nobody.
NoAssignee(status) == {None}

\* The ids Person.role == required_role matches; .first() returns one of
\* them (no ORDER BY), or None when there is none.
AutoAssignCandidates(status) ==
    LET normalized == normalize_status(status)
        matching == IF normalized \in DOMAIN RoleMapping
                    THEN { p \in DOMAIN persons : persons[p] = RoleMapping[normalized] }
                    ELSE {}
    IN IF matching = {} THEN {None} ELSE { Some(p) : p \in matching }

\* Pydantic's validation of a deal row as a DealResponse (from_orm).
DealResponseValid(deal) ==
    /\ deal.status \in DealStatusValues
    /\ deal.priority \in PriorityValues
    /\ ~IsNone(deal.board_position)

\* `except Exception as e: db.rollback(); raise HTTPException(500, ...)`:
\* whatever was raised inside the try block, the client gets a 500.
ExceptHandler(op, raised) ==
    [op |-> op, code |-> 500, detail |-> raised.detail, body |-> <<>>]

\* An HTTPException raised outside any try block reaches the client as is.
Raise(op, code, detail) == [op |-> op, code |-> code, detail |-> detail, body |-> <<>>]

Ok(op) == [op |-> op, code |-> 200, detail |-> "ok", body |-> <<>>]

CountStatus(status, except) ==
    Cardinality({ d \in DOMAIN deals : d # except /\ deals[d].status = status })

DropDeal(id) == [d \in (DOMAIN deals) \ {id} |-> deals[d]]

\* db.delete(deal): the rows that reference the deal keep existing with
\* their deal_id set to NULL (relationships without a delete cascade).
Orphan(rows, id) ==
    [i \in DOMAIN rows |->
        IF rows[i].deal_id = Some(id) THEN [rows[i] EXCEPT !.deal_id = None] ELSE rows[i]]

-----------------------------------------------------------------------------
(* sprint_api.py: the deal handlers.                                       *)

\* Keyword arguments create_deal passes to Deal(...): DealCreate's fields
\* plus board_position.
DealCreateFields ==
    {"title", "description", "status", "priority", "customer_name", "customer_email",
     "contact_person", "decision_makers", "region", "country", "velocity", "deal_stage",
     "deal_description", "deal_probability", "weighted_amount", "estimated_value",
     "budget_range_min", "budget_range_max", "expected_close_date",
     "customer_id", "assigned_person_id", "board_position"}

\* Attributes of the Deal model; its constructor raises TypeError on any
\* other keyword.
DealColumns ==
    {"id", "title", "description", "status", "priority", "customer_name", "customer_email",
     "contact_person", "decision_makers", "region", "country", "assigned_person_id",
     "assigned_person", "solution_owner_id", "solution_owner", "velocity", "deal_stage",
     "deal_description", "deal_probability", "weighted_amount", "estimated_value",
     "budget_range_min", "budget_range_max", "created_at", "updated_at",
     "expected_close_date", "actual_close_date", "board_position", "conversation_data",
     "technical_solution", "resource_allocation", "proposal", "ai_insights",
     "status_history"}

NextDealId ==
    IF DOMAIN deals = {} THEN 1
    ELSE (CHOOSE m \in DOMAIN deals : \A d \in DOMAIN deals : d <= m) + 1

create_deal(status, priority, assigned_person_id) ==
    /\ calls < MaxCalls
    /\ calls' = calls + 1
    /\ LET max_position == CountStatus(status, 0)
           row == [status |-> status, priority |-> priority,
                   board_position |-> Some(max_position),
                   assigned_person_id |-> assigned_person_id]
       IN IF DealCreateFields \subseteq DealColumns
          THEN /\ NextDealId <= MaxDeals
               /\ deals' = [d \in (DOMAIN deals) \cup {NextDealId} |->
                                IF d = NextDealId THEN row ELSE deals[d]]
               /\ response' = Ok("create_deal")
          ELSE \* Deal(**kwargs) raises TypeError
               /\ deals' = deals
               /\ response' = ExceptHandler("create_deal",
                                  [detail |-> "Error creating deal"])
    /\ UNCHANGED <<persons, status_history, ai_insights>>

\* A DealUpdate body: the fields the client sent (exclude_unset) and their
\* values.
ApplyUpdate(deal, body) ==
    [status |-> IF "status" \in body.fields THEN body.status ELSE deal.status,
     priority |-> IF "priority" \in body.fields THEN body.priority ELSE deal.priority,
     board_position |-> IF "board_position" \in body.fields
                        THEN body.board_position ELSE deal.board_position,
     assigned_person_id |-> IF "assigned_person_id" \in body.fields
                            THEN body.assigned_person_id ELSE deal.assigned_person_id]

update_deal(deal_id, body) ==
    /\ calls < MaxCalls
    /\ calls' = calls + 1
    /\ IF deal_id \notin DOMAIN deals
       THEN /\ response' = Raise("update_deal", 404, "Deal not found")
            /\ deals' = deals
       ELSE LET updated == ApplyUpdate(deals[deal_id], body)
            IN /\ deals' = [deals EXCEPT ![deal_id] = updated]
               \* the row is committed before the response is built
               /\ response' = IF DealResponseValid(updated)
                              THEN Ok("update_deal")
                              ELSE ExceptHandler("update_deal",
                                       [detail |-> "Error updating deal"])
    /\ UNCHANGED <<persons, status_history, ai_insights>>

QualifiedStatuses == {"qualified_solution", "qualified_delivery", "qualified_cso"}

\* _trigger_ai_insight_for_status: the placeholder insight row.
AnalysisType ==
    [qualified_solution |-> "qualified_solution_analysis",
     qualified_delivery |-> "qualified_delivery_analysis",
     qualified_cso      |-> "qualified_cso_analysis"]

PlaceholderInsight(deal_id, status) ==
    [deal_id |-> Some(deal_id), insight_type |-> AnalysisType[status],
     triggered_by_status |-> normalize_status(status), confidence_score |-> None]

update_deal_status(deal_id, new_status, board_position) ==
    /\ calls < MaxCalls
    /\ calls' = calls + 1
    /\ IF deal_id \notin DOMAIN deals
       THEN /\ response' = Raise("update_deal_status", 404, "Deal not found")
            /\ UNCHANGED <<deals, status_history, ai_insights>>
       ELSE LET deal == deals[deal_id]
                old_status == deal.status
                parsed == ParseNewStatus(new_status)
            IN IF parsed = <<>>
               THEN \* HTTPException(400) raised inside the try block
                    /\ response' = ExceptHandler("update_deal_status",
                                       Raise("update_deal_status", 400, "Invalid status"))
                    /\ UNCHANGED <<deals, status_history, ai_insights>>
               ELSE IF old_status = NULL
               THEN \* normalize_status(None) raises AttributeError
                    /\ response' = ExceptHandler("update_deal_status",
                                       [detail |-> "Error updating deal status"])
                    /\ UNCHANGED <<deals, status_history, ai_insights>>
               ELSE LET status_value == Val(parsed)
                        position == IF ~IsNone(board_position)
                                    THEN board_position
                                    ELSE Some(CountStatus(status_value, deal_id))
                    IN \E assignee \in AutoAssignCandidates(status_value) :
                        LET updated == [deal EXCEPT !.status = status_value,
                                                    !.board_position = position,
                                                    !.assigned_person_id = assignee]
                        IN /\ deals' = [deals EXCEPT ![deal_id] = updated]
                           /\ status_history' = Append(status_history,
                                  [deal_id |-> Some(deal_id),
                                   previous_status |-> normalize_status(old_status),
                                   new_status |-> normalize_status(status_value)])
                           /\ ai_insights' =
                                  IF normalize_status(status_value) \in QualifiedStatuses
                                  THEN Append(ai_insights,
                                              PlaceholderInsight(deal_id, status_value))
                                  ELSE ai_insights
                           \* committed; then the response is built
                           /\ response' = IF DealResponseValid(updated)
                                          THEN Ok("update_deal_status")
                                          ELSE ExceptHandler("update_deal_status",
                                                   [detail |-> "Error updating deal status"])
    /\ UNCHANGED persons

delete_deal(deal_id) ==
    /\ calls < MaxCalls
    /\ calls' = calls + 1
    /\ IF deal_id \notin DOMAIN deals
       THEN /\ response' = Raise("delete_deal", 404, "Deal not found")
            /\ UNCHANGED <<deals, status_history, ai_insights>>
       ELSE /\ deals' = DropDeal(deal_id)
            /\ status_history' = Orphan(status_history, deal_id)
            /\ ai_insights' = Orphan(ai_insights, deal_id)
            /\ response' = Ok("delete_deal")
    /\ UNCHANGED persons

-----------------------------------------------------------------------------
(* sprint_api.py: get_sprint_board.                                        *)

StatusDeals(status) == { d \in DOMAIN deals : deals[d].status = status }

\* list.sort(key=lambda x: x.board_position): stable, so deals with equal
\* positions stay in query (id) order.
RECURSIVE SortByPosition(_)
SortByPosition(S) ==
    IF S = {} THEN <<>>
    ELSE LET first == CHOOSE d \in S : \A e \in S :
                          \/ Val(deals[d].board_position) < Val(deals[e].board_position)
                          \/ /\ deals[d].board_position = deals[e].board_position
                             /\ d <= e
         IN <<first>> \o SortByPosition(S \ {first})

\* Comparing None with anything raises TypeError inside sort.
SortRaises(S) ==
    Cardinality(S) >= 2 /\ \E d \in S : IsNone(deals[d].board_position)

BoardRaises ==
    \E i \in DOMAIN DealStatus :
        \/ SortRaises(StatusDeals(DealStatus[i].value))
        \/ \E d \in StatusDeals(DealStatus[i].value) : ~DealResponseValid(deals[d])

SprintBoardColumn(status) ==
    LET status_deals == SortByPosition(StatusDeals(status))
    IN [status |-> status, deals |-> status_deals, count |-> Len(status_deals)]

get_sprint_board ==
    /\ response' =
          IF BoardRaises
          THEN ExceptHandler("get_sprint_board", [detail |-> "Error fetching sprint board"])
          ELSE [op |-> "get_sprint_board", code |-> 200, detail |-> "ok",
                body |-> [columns |-> [i \in DOMAIN DealStatus |->
                                           SprintBoardColumn(DealStatus[i].value)],
                          total_deals |-> Cardinality(DOMAIN deals)]]
    /\ UNCHANGED <<deals, persons, status_history, ai_insights, calls>>

-----------------------------------------------------------------------------
(* The deal board as a state machine.                                      *)

\* Person tables (id -> role): an empty one, and one with every role and
\* a second sales person.
PersonTables ==
    { <<>>,
      <<"sales", "head_of_engineering", "head_of_delivery", "cso",
        "project_manager", "sales">> }

\* Stored deals at start: ids 1..n, any of the six statuses, each deal at
\* the end of its column.
InitialDeals ==
    UNION { { [d \in 1..n |->
                 [status |-> st[d], priority |-> "medium",
                  board_position |->
                      Some(Cardinality({ e \in 1..(d - 1) : st[e] = st[d] })),
                  assigned_person_id |-> None]] :
              st \in [1..n -> DealStatusValues] } : n \in 0..MaxDeals }

Positions == { None } \cup { Some(n) : n \in 0..MaxPos }

\* DealUpdate bodies with one field set (a null included: every field is
\* Optional).
DealUpdateBodies ==
    LET blank == [fields |-> {}, status |-> NULL, priority |-> NULL,
                  board_position |-> None, assigned_person_id |-> None]
    IN { [blank EXCEPT !.fields = {"status"}, !.status = v] :
            v \in DealStatusValues \cup {NULL} }
       \cup { [blank EXCEPT !.fields = {"priority"}, !.priority = v] :
            v \in {"high", NULL} }
       \cup { [blank EXCEPT !.fields = {"board_position"}, !.board_position = v] :
            v \in Positions }
       \cup { [blank EXCEPT !.fields = {"assigned_person_id"}, !.assigned_person_id = v] :
            v \in {None, Some(1)} }
       \cup { blank }

DealIds == 1..(MaxDeals + 1)

DealInit ==
    /\ deals \in InitialDeals
    /\ persons \in PersonTables
    /\ status_history = <<>>
    /\ ai_insights = <<>>
    /\ response = [op |-> "none", code |-> 0, detail |-> "", body |-> <<>>]
    /\ calls = 0

-----------------------------------------------------------------------------
(* sprint_api.py: parse_budget_value.  A Python string is a sequence of    *)
(* one-character strings; a float is an exact fraction num/den (rounding   *)
(* of binary floating point is left out).                                  *)

RECURSIVE GCD(_, _)
GCD(a, b) == IF b = 0 THEN a ELSE GCD(b, a % b)

Abs(n) == IF n < 0 THEN -n ELSE n

Frac(n, d) ==
    LET g == GCD(Abs(n), d) IN [num |-> n \div g, den |-> d \div g]

FracTimes(r, k) ==
    LET g == GCD(k, r.den) IN Frac(r.num * (k \div g), r.den \div g)
FracMean(a, b) == Frac(a.num * b.den + b.num * a.den, 2 * a.den * b.den)

RECURSIVE Pow10(_)
Pow10(n) == IF n = 0 THEN 1 ELSE 10 * Pow10(n - 1)

DigitChars == <<"0", "1", "2", "3", "4", "5", "6", "7", "8", "9">>
IsDigit(c) == \E i \in DOMAIN DigitChars : DigitChars[i] = c
DigitOf(c) == (CHOOSE i \in DOMAIN DigitChars : DigitChars[i] = c) - 1

\* str.replace(c, '')
Remove(str, c) == SelectSeq(str, LAMBDA x : x # c)

\* A lower() that leaves capitals alone.
KeepCase(c) == c

\* str.lower() on the characters of the model.
LowerChar(c) == IF c = "K" THEN "k" ELSE IF c = "M" THEN "m" ELSE c
Lower(str) == [i \in DOMAIN str |-> LowerChar(str[i])]

RECURSIVE Strip(_)
Strip(str) ==
    IF str # <<>> /\ Head(str) = " " THEN Strip(Tail(str))
    ELSE IF str # <<>> /\ str[Len(str)] = " " THEN Strip(SubSeq(str, 1, Len(str) - 1))
    ELSE str

Contains(str, c) == \E i \in DOMAIN str : str[i] = c

\* re.split(r'\s*-\s*', str): the pieces between the dashes, the white
\* space around a dash belonging to the separator.
RECURSIVE ReSplit(_)
ReSplit(str) ==
    IF ~Contains(str, "-") THEN <<str>>
    ELSE LET i == CHOOSE k \in DOMAIN str :
                      str[k] = "-" /\ \A j \in 1..(k - 1) : str[j] # "-"
             left == SubSeq(str, 1, i - 1)
             right == SubSeq(str, i + 1, Len(str))
         IN <<Strip(left)>> \o
            (LET rest == ReSplit(right) IN <<Strip(Head(rest))>> \o Tail(rest))

RECURSIVE DigitsToInt(_)
DigitsToInt(str) ==
    IF str = <<>> THEN 0
    ELSE 10 * DigitsToInt(SubSeq(str, 1, Len(str) - 1)) + DigitOf(str[Len(str)])

\* float(str) on the characters of the model: an optional sign, digits
\* with at most one point and at least one digit.  <<>> is ValueError.
ParseFloat(str) ==
    LET s == Strip(str)
        neg == s # <<>> /\ Head(s) = "-"
        body == IF neg THEN Tail(s) ELSE s
        digits == Remove(body, ".")
        points == Len(body) - Len(digits)
        valid == /\ digits # <<>>
                 /\ \A i \in DOMAIN digits : IsDigit(digits[i])
                 /\ points <= 1
        point == IF points = 0 THEN Len(body) + 1
                 ELSE CHOOSE k \in DOMAIN body : body[k] = "."
        decimals == IF points = 0 THEN 0 ELSE Len(body) - point
        n == DigitsToInt(digits)
    IN IF valid THEN <<Frac(IF neg THEN -n ELSE n, Pow10(decimals))>> ELSE <<>>

KMultiplier == 1000
MMultiplier == 1000000

\* _convert_to_number: <<value>>, or <<>> when float() raises.
convert_to_number(str) ==
    LET value_str == Lower(Strip(str))
        n == Len(value_str)
        Scaled(k) == LET f == ParseFloat(SubSeq(value_str, 1, n - 1))
                     IN IF f = <<>> THEN <<>> ELSE <<FracTimes(f[1], k)>>
    IN IF n > 0 /\ value_str[n] = "k" THEN Scaled(KMultiplier)
       ELSE IF n > 0 /\ value_str[n] = "m" THEN Scaled(MMultiplier)
       ELSE ParseFloat(value_str)

\* A range read as its lower bound.
RangeValueLow(low, high) == low

\* (low + high) / 2
RangeValue(low, high) == FracMean(low, high)

\* budget_str is [type |-> "none"], [type |-> "number", num, den] or
\* [type |-> "str", chars].
parse_budget_value(budget_str) ==
    IF \/ budget_str.type = "none"
       \/ budget_str.type = "str" /\ budget_str.chars = <<>>
       \/ budget_str.type = "number" /\ budget_str.num = 0
    THEN Frac(0, 1)
    ELSE IF budget_str.type = "number"
    THEN Frac(budget_str.num, budget_str.den)
    ELSE LET cleaned == Lower(Remove(Remove(Remove(budget_str.chars, "$"), ","), " "))
             parts == ReSplit(cleaned)
             low == convert_to_number(parts[1])
             high == convert_to_number(parts[2])
             single == convert_to_number(cleaned)
         IN IF Contains(cleaned, "-") /\ Len(parts) = 2 /\ low # <<>> /\ high # <<>>
            THEN RangeValue(low[1], high[1])
            ELSE IF single # <<>> THEN single[1] ELSE Frac(0, 1)

-----------------------------------------------------------------------------
(* Budget inputs.  An amount is written from its parts: whole digits,      *)
(* decimals, an optional '$', optional thousands separators and a suffix;  *)
(* what it is worth is computed from the parts, not from the text.         *)

MaxInt == 3

WholeDigits ==
    { <<0>>, <<1>>, <<5>>, <<5, 0>>, <<2, 5, 2>>, <<3, 0, 0>>, <<3, 2, 7>>,
      <<1, 5, 0, 0>>, <<1, 5, 0, 0, 0, 0>> }

Suffixes == {"", "k", "m", "K", "M"}

\* Amounts whose value fits the integers of the model.
Amounts ==
    { a \in [whole : WholeDigits, decimals : {<<>>, <<5>>}, dollar : BOOLEAN,
             commas : BOOLEAN, suffix : Suffixes] :
        /\ a.commas => Len(a.whole) > 3
        /\ Len(a.whole) > 3 => a.suffix \in {"", "k", "K"} }

RECURSIVE DigitSeqValue(_)
DigitSeqValue(ds) ==
    IF ds = <<>> THEN 0
    ELSE 10 * DigitSeqValue(SubSeq(ds, 1, Len(ds) - 1)) + ds[Len(ds)]

SuffixFactor(suffix) ==
    IF suffix \in {"k", "K"} THEN 1000
    ELSE IF suffix \in {"m", "M"} THEN 1000000 ELSE 1

AmountValue(a) ==
    FracTimes(Frac(DigitSeqValue(a.whole) * Pow10(Len(a.decimals))
                       + DigitSeqValue(a.decimals),
                   Pow10(Len(a.decimals))),
              SuffixFactor(a.suffix))

RECURSIVE Concat(_)
Concat(pieces) ==
    IF pieces = <<>> THEN <<>> ELSE Head(pieces) \o Concat(Tail(pieces))

\* The whole digits as text, a comma before every group of three when
\* asked for.
WholeText(ds, commas) ==
    LET n == Len(ds)
        Piece(i) ==
            (IF commas /\ i > 1 /\ (n - i + 1) % 3 = 0 THEN <<",">> ELSE <<>>)
            \o <<DigitChars[ds[i] + 1]>>
    IN Concat([i \in 1..n |-> Piece(i)])

AmountText(a) ==
    (IF a.dollar THEN <<"$">> ELSE <<>>)
    \o WholeText(a.whole, a.commas)
    \o (IF a.decimals = <<>> THEN <<>>
        ELSE <<".">> \o [i \in DOMAIN a.decimals |-> DigitChars[a.decimals[i] + 1]])
    \o (IF a.suffix = "" THEN <<>> ELSE <<a.suffix>>)

Separators == { <<" ", "-", " ">>, <<"-">> }

NoAmount ==
    [whole |-> <<0>>, decimals |-> <<>>, dollar |-> FALSE, commas |-> FALSE,
     suffix |-> ""]

BudgetInputs ==
    LET blank == [kind |-> "none", n |-> 0, a |-> NoAmount, b |-> NoAmount,
                  sep |-> <<"-">>]
    IN { blank, [blank EXCEPT !.kind = "empty"] }
       \cup { [blank EXCEPT !.kind = "int", !.n = n] : n \in 0..MaxInt }
       \cup { [blank EXCEPT !.kind = "float", !.n = n] : n \in 0..MaxInt }
       \cup { [blank EXCEPT !.kind = "single", !.a = a] : a \in Amounts }
       \cup { [blank EXCEPT !.kind = "range", !.a = a, !.b = b, !.sep = sp] :
                a \in Amounts, b \in Amounts, sp \in Separators }

\* The Python value the caller passes: None, '', the int n, the float
\* n/2, or the text of the amount or range.
BudgetArg(input) ==
    CASE input.kind = "none"   -> [type |-> "none", num |-> 0, den |-> 1, chars |-> <<>>]
      [] input.kind = "empty"  -> [type |-> "str", num |-> 0, den |-> 1, chars |-> <<>>]
      [] input.kind = "int"    -> [type |-> "number", num |-> input.n, den |-> 1,
                                   chars |-> <<>>]
      [] input.kind = "float"  -> [type |-> "number", num |-> input.n, den |-> 2,
                                   chars |-> <<>>]
      [] input.kind = "single" -> [type |-> "str", num |-> 0, den |-> 1,
                                   chars |-> AmountText(input.a)]
      [] input.kind = "range"  -> [type |-> "str", num |-> 0, den |-> 1,
                                   chars |-> AmountText(input.a) \o input.sep
                                             \o AmountText(input.b)]

BudgetInit ==
    /\ budget_input \in BudgetInputs
    /\ budget_result = <<>>

\* One call of parse_budget_value on the input.
ParseBudget ==
    /\ budget_result = <<>>
    /\ budget_result' = <<parse_budget_value(BudgetArg(budget_input))>>
    /\ UNCHANGED budget_input

-----------------------------------------------------------------------------
(* ai_agents: the four agents.  Texts are kept by the facts the rules      *)
(* look at: their length and which of the keywords they contain once       *)
(* lower-cased.                                                            *)

LongRequirements == "long requirements"

TextFacts ==
    { [s |-> "None",           lower |-> "none",     len |-> 4,   words |-> {}],
      [s |-> "",               lower |-> "",         len |-> 0,   words |-> {}],
      [s |-> "High",           lower |-> "high",     len |-> 4,   words |-> {}],
      [s |-> "medium",         lower |-> "medium",   len |-> 6,   words |-> {}],
      [s |-> "6 months",       lower |-> "6 months", len |-> 8,   words |-> {"6", "month"}],
      [s |-> "ASAP",           lower |-> "asap",     len |-> 4,   words |-> {"asap"}],
      [s |-> "web portal",     lower |-> "web portal", len |-> 10, words |-> {"web", "portal"}],
      [s |-> LongRequirements, lower |-> LongRequirements, len |-> 240, words |-> {}],
      [s |-> "grow sales",     lower |-> "grow sales", len |-> 10, words |-> {"sales"}],
      [s |-> "CTO",            lower |-> "cto",      len |-> 3,   words |-> {}],
      [s |-> "Python",         lower |-> "python",   len |-> 6,   words |-> {}],
      [s |-> "Acme GmbH",      lower |-> "acme gmbh", len |-> 9,  words |-> {}],
      [s |-> "TechSoft",       lower |-> "techsoft", len |-> 8,   words |-> {"tech"}],
      [s |-> "Microservices",  lower |-> "microservices", len |-> 13, words |-> {}],
      [s |-> "Microservices Architecture", lower |-> "microservices architecture",
       len |-> 26, words |-> {}],
      [s |-> "Custom Software with modular design",
       lower |-> "custom software with modular design", len |-> 35, words |-> {}] }

Facts(s) == CHOOSE r \in TextFacts : r.s = s

\* str(x): a null becomes the text 'None'.
StrOf(x) == IF x = NULL THEN "None" ELSE x

\* Python truthiness of a nullable string and of a nullable number.
Truthy(x) == x # NULL /\ x # ""
TruthyNum(x) == ~IsNone(x) /\ Val(x) # 0

\* any(word in text.lower() for word in words)
AnyWordIn(words, text) == (words \cap Facts(text).words) # {}

Returned(source, score, confidence) ==
    [raised |-> FALSE, source |-> source, score |-> score, confidence |-> confidence]

Raised(exception) ==
    [raised |-> TRUE, source |-> exception, score |-> 0, confidence |-> 0]

FallbackConfidence == 70

\* LeadQualificationAgent._fallback_calculate_score (the callers pass no
\* estimated_value and no team_size key).
lead_fallback_score(customer, conversation) ==
    (IF TruthyNum(customer.budget_range_min) /\ TruthyNum(customer.budget_range_max)
     THEN 25 ELSE 0)
    + (IF Truthy(conversation.decision_makers) \/ Truthy(customer.Decision_Maker_Role)
       THEN 20 ELSE 0)
    + (IF \/ Truthy(conversation.business_goals)
          \/ Truthy(conversation.pain_points)
          \/ Truthy(conversation.customer_requirements)
       THEN 25 ELSE 0)
    + (IF Truthy(conversation.project_timeline) \/ Truthy(conversation.urgency_level)
       THEN 15 ELSE 0)
    + (IF Truthy(conversation.tech_preferences) THEN 15 ELSE 0)

\* LeadQualificationAgent._fallback_analyze_lead: truthiness tests only,
\* nothing in it raises.
fallback_analyze_lead(call) ==
    Returned("fallback", lead_fallback_score(call.customer, call.conversation),
             FallbackConfidence)

\* SolutionDesignAgent._fallback_calculate_score
solution_fallback_score(customer, conversation) ==
    LET urgency == Facts(StrOf(conversation.urgency_level)).lower
    IN Min(100,
           (IF Truthy(conversation.customer_requirements) THEN 20 ELSE 0)
           + (IF Truthy(conversation.business_goals) THEN 10 ELSE 0)
           + (IF Truthy(conversation.tech_preferences) THEN 10 ELSE 0)
           + (IF TruthyNum(customer.budget_range_min) THEN 15 ELSE 0)
           + (IF Truthy(conversation.project_timeline) THEN 15 ELSE 0)
           + (IF urgency \in {"low", "medium"} THEN 15
              ELSE IF urgency = "high" THEN 10 ELSE 0)
           + 5)

\* SolutionDesignAgent._fallback_analyze_solution: every text goes through
\* str(), nothing in it raises.
fallback_analyze_solution(call) ==
    Returned("fallback", solution_fallback_score(call.customer, call.conversation),
             FallbackConfidence)

\* DeliveryPlanningAgent._fallback_calculate_score
delivery_fallback_score(customer, conversation, solution) ==
    LET urgency == Facts(StrOf(conversation.urgency_level)).lower
        timeline == StrOf(conversation.project_timeline)
    IN Min(100,
           (IF Truthy(conversation.customer_requirements) THEN 15 ELSE 0)
           + (IF Truthy(conversation.business_goals) THEN 10 ELSE 0)
           + (IF Truthy(conversation.project_timeline) THEN 5 ELSE 0)
           + (IF solution.present /\ solution.technology_stack THEN 10 ELSE 0)
           + (IF solution.present /\ solution.implementation_phases THEN 10 ELSE 0)
           + (IF solution.present /\ solution.solution_score > 70 THEN 5 ELSE 0)
           + (IF TruthyNum(customer.budget_range_min) THEN 15 ELSE 0)
           + (IF Truthy(conversation.decision_makers) THEN 10 ELSE 0)
           + (IF urgency = "low" \/ AnyWordIn({"6", "year"}, timeline) THEN 20
              ELSE IF urgency = "medium" THEN 15
              ELSE IF urgency = "high" THEN 5 ELSE 0))

\* DeliveryPlanningAgent._fallback_analyze_delivery.  The recommendations
\* call solution_type.lower(): AttributeError on a null solution type.
fallback_analyze_delivery(call) ==
    LET solution_type == IF call.solution.present
                         THEN call.solution.solution_type ELSE "Custom Software"
    IN IF solution_type = NULL
       THEN Raised("AttributeError")
       ELSE Returned("fallback",
                     delivery_fallback_score(call.customer, call.conversation,
                                             call.solution),
                     FallbackConfidence)

\* ProposalGenerationAgent._fallback_calculate_score, when it returns.
proposal_fallback_score(customer, conversation, solution, delivery) ==
    LET budget_min == Val(customer.budget_range_min)
        urgency == Facts(StrOf(conversation.urgency_level)).lower
        requirements == conversation.customer_requirements
        timeline == StrOf(conversation.project_timeline)
    IN Min(100,
           (IF budget_min > 100000 THEN 20
            ELSE IF budget_min > 50000 THEN 15
            ELSE IF budget_min > 10000 THEN 10 ELSE 5)
           + (IF urgency = "high" THEN 15 ELSE IF urgency = "medium" THEN 10 ELSE 5)
           + (IF Truthy(conversation.decision_makers) THEN 5 ELSE 0)
           + (IF Truthy(requirements) /\ Facts(requirements).len > 100 THEN 10
              ELSE IF Truthy(requirements) THEN 5 ELSE 0)
           + (IF solution.present /\ solution.solution_score > 70 THEN 15
              ELSE IF solution.present /\ solution.solution_score > 50 THEN 10 ELSE 5)
           \* the delivery dictionary has no 'delivery_score' key: 0 > 70 fails
           + (IF delivery.present THEN 5 ELSE 0)
           + (IF AnyWordIn({"tech", "software", "saas"}, customer.Industry)
              THEN 10 ELSE 5)
           + (IF Truthy(conversation.business_goals) THEN 5 ELSE 0)
           + (IF AnyWordIn({"month", "quarter", "year"}, timeline) THEN 10 ELSE 5))

\* ProposalGenerationAgent._fallback_analyze_proposal.  The score compares
\* budget_range_min with a number (TypeError on None) and lower-cases the
\* industry (AttributeError on None); the value proposition lower-cases the
\* solution type.
fallback_analyze_proposal(call) ==
    IF IsNone(call.customer.budget_range_min)
    THEN Raised("TypeError")
    ELSE IF call.customer.Industry = NULL
    THEN Raised("AttributeError")
    ELSE IF call.solution.present /\ call.solution.solution_type = NULL
    THEN Raised("AttributeError")
    ELSE Returned("fallback",
                  proposal_fallback_score(call.customer, call.conversation,
                                          call.solution, call.delivery),
                  FallbackConfidence)

Agents == {"lead_qualification", "solution_design", "delivery_planning",
           "proposal_generation"}

fallback_analyze(call) ==
    CASE call.agent = "lead_qualification"  -> fallback_analyze_lead(call)
      [] call.agent = "solution_design"     -> fallback_analyze_solution(call)
      [] call.agent = "delivery_planning"   -> fallback_analyze_delivery(call)
      [] call.agent = "proposal_generation" -> fallback_analyze_proposal(call)

\* _parse_ai_response: only json.JSONDecodeError is handled here.
parse_ai_response(call) ==
    IF call.ai.kind = "unparsable"
    THEN IF call.fallback_enabled THEN fallback_analyze(call)
         ELSE Raised("JSONDecodeError")
    ELSE Returned("ai", call.ai.score, call.ai.confidence)

\* _ai_analyze_*: the chat call, then the parse; whatever is raised is
\* raised again.
ai_analyze(call) ==
    IF call.ai.kind = "raises" THEN Raised("APIError") ELSE parse_ai_response(call)

\* analyze_lead, analyze_solution_requirements,
\* analyze_delivery_requirements, analyze_proposal_requirements.
analyze(call) ==
    LET attempt == ai_analyze(call)
    IN IF ~attempt.raised THEN attempt
       ELSE IF call.fallback_enabled THEN fallback_analyze(call)
       ELSE attempt

-----------------------------------------------------------------------------
(* The inputs the trigger helpers build from the tables.                   *)

Budgets == {None, Some(5000), Some(60000), Some(150000)}

CustomerData ==
    [Industry : {NULL, "Acme GmbH", "TechSoft"},
     budget_range_min : Budgets,
     budget_range_max : {None, Some(200000)},
     Decision_Maker_Role : {NULL}]

NoConversation ==
    [present |-> FALSE, customer_requirements |-> NULL, business_goals |-> NULL,
     pain_points |-> NULL, tech_preferences |-> NULL, project_timeline |-> NULL,
     urgency_level |-> NULL, decision_makers |-> NULL]

\* No conversation row, a row of nulls, a partly filled and a filled one.
Conversations ==
    { NoConversation,
      [NoConversation EXCEPT !.present = TRUE],
      [NoConversation EXCEPT !.present = TRUE, !.customer_requirements = "web portal",
                             !.urgency_level = "High", !.project_timeline = "ASAP"],
      [present |-> TRUE, customer_requirements |-> LongRequirements,
       business_goals |-> "grow sales", pain_points |-> "", tech_preferences |-> "Python",
       project_timeline |-> "6 months", urgency_level |-> "medium",
       decision_makers |-> "CTO"] }

NoSolution ==
    [present |-> FALSE, solution_type |-> NULL, technology_stack |-> FALSE,
     implementation_phases |-> FALSE, solution_score |-> 0]

Solutions ==
    { NoSolution,
      [NoSolution EXCEPT !.present = TRUE, !.solution_type = ""],
      [NoSolution EXCEPT !.present = TRUE],
      [present |-> TRUE, solution_type |-> "Microservices", technology_stack |-> TRUE,
       implementation_phases |-> TRUE, solution_score |-> 85] }

Deliveries == { [present |-> FALSE], [present |-> TRUE] }

AiOutcomes ==
    { [kind |-> "ok", score |-> 90, confidence |-> 95],
      [kind |-> "raises", score |-> 0, confidence |-> 0],
      [kind |-> "unparsable", score |-> 0, confidence |-> 0] }

\* customer_data['Decision_Maker_Role'] is the conversation's
\* decision_makers (lead qualification).
AgentCalls ==
    { [agent |-> a,
       customer |-> [c EXCEPT !.Decision_Maker_Role = v.decision_makers],
       conversation |-> v, solution |-> sl, delivery |-> dl, ai |-> ai,
       fallback_enabled |-> fb] :
        a \in Agents, c \in CustomerData, v \in Conversations, sl \in Solutions,
        dl \in Deliveries, ai \in AiOutcomes, fb \in BOOLEAN }

AgentInit ==
    /\ agent_call \in AgentCalls
    /\ agent_result = <<>>

\* One call of the agent's public analyze method.
Analyze ==
    /\ agent_result = <<>>
    /\ agent_result' = <<analyze(agent_call)>>
    /\ UNCHANGED agent_call

-----------------------------------------------------------------------------
(* sprint_api.py: the AI trigger helpers and their endpoints.              *)

\* The dictionary each helper puts in place of the analysis when the
\* agent's analyze method raises.
DefaultAnalysis ==
    [lead_qualification  |-> [score |-> 70, confidence |-> 65],
     solution_design     |-> [score |-> 85, confidence |-> 75],
     delivery_planning   |-> [score |-> 80, confidence |-> 70],
     proposal_generation |-> [score |-> 75, confidence |-> 60]]

\* A helper without the except branch: the analysis is whatever came back.
KeepOutcome(agent, outcome) ==
    [source |-> outcome.source, score |-> outcome.score,
     confidence |-> outcome.confidence]

\* try: analysis = agent.analyze_*(...)  except Exception: analysis = {...}
SubstituteDefault(agent, outcome) ==
    IF outcome.raised
    THEN [source |-> "default", score |-> DefaultAnalysis[agent].score,
          confidence |-> DefaultAnalysis[agent].confidence]
    ELSE [source |-> outcome.source, score |-> outcome.score,
          confidence |-> outcome.confidence]

\* analysis['recommended_architecture'] by where the analysis came from.
RecommendedArchitecture(analysis) ==
    CASE analysis.source = "default"  -> "Microservices Architecture"
      [] analysis.source = "fallback" -> "Custom Software with modular design"
      [] OTHER                        -> "Microservices"   \* the AI's answer

TriggeredByStatus ==
    [lead_qualification  |-> "lead",
     solution_design     |-> "qualified_solution",
     delivery_planning   |-> "qualified_delivery",
     proposal_generation |-> "qualified_cso"]

\* The dictionaries a helper builds from the deal and its related rows.
HelperCall(agent, deal_id, ai) ==
    LET info == deal_info[deal_id]
    IN [agent |-> agent,
        customer |-> [Industry |-> info.customer_name,
                      budget_range_min |-> info.budget_range_min,
                      budget_range_max |-> info.budget_range_max,
                      Decision_Maker_Role |-> info.conversation.decision_makers],
        conversation |-> info.conversation,
        solution |-> IF deal_id \in DOMAIN technical_solutions
                     THEN [present |-> TRUE,
                           solution_type |->
                               technical_solutions[deal_id].architecture_overview,
                           technology_stack |-> TRUE,
                           implementation_phases |-> TRUE,
                           solution_score |->
                               technical_solutions[deal_id].complexity_score]
                     ELSE NoSolution,
        delivery |-> [present |-> deal_id \in resource_allocations],
        ai |-> ai,
        fallback_enabled |-> fallback_enabled]

\* _trigger_lead_qualification, _trigger_solution_design,
\* _trigger_delivery_planning, _trigger_proposal_generation, for a deal
\* that exists: run the agent, substitute the default when it raises, store
\* the stage's row and one AIInsight, commit, answer with the scores.
TriggerHelper(op, agent, deal_id, ai) ==
    LET call == HelperCall(agent, deal_id, ai)
        outcome == analyze(call)
        analysis == SubstituteDefault(agent, outcome)
    IN /\ agent_call' = call
       /\ agent_result' = <<outcome>>
       /\ technical_solutions' =
              IF agent = "solution_design"
              THEN [d \in (DOMAIN technical_solutions) \cup {deal_id} |->
                       IF d = deal_id
                       THEN [architecture_overview |-> RecommendedArchitecture(analysis),
                             complexity_score |-> analysis.score]
                       ELSE technical_solutions[d]]
              ELSE technical_solutions
       /\ resource_allocations' =
              IF agent = "delivery_planning"
              THEN resource_allocations \cup {deal_id} ELSE resource_allocations
       /\ proposals' =
              IF agent = "proposal_generation"
              THEN proposals \cup {deal_id} ELSE proposals
       /\ ai_insights' = Append(ai_insights,
              [deal_id |-> Some(deal_id), insight_type |-> agent,
               triggered_by_status |-> normalize_status(TriggeredByStatus[agent]),
               confidence_score |-> Some(analysis.confidence)])
       /\ response' = [op |-> op, code |-> 200, detail |-> "ok",
                       body |-> [helper |-> agent, deal_id |-> deal_id,
                                 score |-> analysis.score,
                                 confidence |-> analysis.confidence]]

\* A request that reaches no helper calls no agent.
NoHelper(resp) ==
    /\ response' = resp
    /\ agent_call' = <<>>
    /\ agent_result' = <<>>
    /\ UNCHANGED <<technical_solutions, resource_allocations, proposals, ai_insights>>

HelperByStatus ==
    [lead               |-> "lead_qualification",
     qualified_solution |-> "solution_design",
     qualified_delivery |-> "delivery_planning",
     qualified_cso      |-> "proposal_generation"]

\* POST /ai/insight/{deal_id}; current_status is <<>> when the request body
\* has no such key, else <<string>>.
trigger_ai_insight(deal_id, current_status, ai) ==
    /\ calls < MaxCalls
    /\ calls' = calls + 1
    /\ IF deal_id \notin DOMAIN deals
       THEN NoHelper(Raise("trigger_ai_insight", 404, "Deal not found"))
       ELSE LET requested == IF current_status = <<>> THEN deals[deal_id].status
                             ELSE current_status[1]
            IN IF requested = NULL
               THEN \* normalize_status(None) raises AttributeError
                    NoHelper(ExceptHandler("trigger_ai_insight",
                                 [detail |-> "Error triggering AI insight"]))
               ELSE IF normalize_status(requested) \in DOMAIN HelperByStatus
               THEN TriggerHelper("trigger_ai_insight",
                                  HelperByStatus[normalize_status(requested)],
                                  deal_id, ai)
               ELSE NoHelper([Ok("trigger_ai_insight") EXCEPT
                                 !.detail = "No AI insights available"])
    /\ UNCHANGED <<deals, persons, status_history, deal_info, fallback_enabled>>

\* POST /ai/qualification/{deal_id}
trigger_ai_qualification(deal_id, ai) ==
    /\ calls < MaxCalls
    /\ calls' = calls + 1
    /\ IF deal_id \notin DOMAIN deals
       THEN NoHelper(Raise("trigger_ai_qualification", 404, "Deal not found"))
       ELSE TriggerHelper("trigger_ai_qualification", "lead_qualification", deal_id, ai)
    /\ UNCHANGED <<deals, persons, status_history, deal_info, fallback_enabled>>

\* What the model keeps of a deal besides its board fields.
DealInfoOptions ==
    { [customer_name |-> NULL, budget_range_min |-> None, budget_range_max |-> None,
       conversation |-> NoConversation],
      [customer_name |-> "Acme GmbH", budget_range_min |-> None,
       budget_range_max |-> None,
       conversation |-> [NoConversation EXCEPT !.present = TRUE,
                                               !.customer_requirements = "web portal",
                                               !.urgency_level = "High"]],
      [customer_name |-> "TechSoft", budget_range_min |-> Some(60000),
       budget_range_max |-> Some(200000),
       conversation |-> [NoConversation EXCEPT !.present = TRUE,
                                               !.customer_requirements = LongRequirements,
                                               !.project_timeline = "6 months",
                                               !.decision_makers = "CTO"]] }

CurrentStatusRequests ==
    { <<>>, <<"lead">>, <<"QUALIFIED_SOLUTION">>, <<"Qualified_Delivery">>,
      <<"qualified_cso">>, <<"Project">> }

InsightInit ==
    /\ deals \in { ds \in InitialDeals : DOMAIN ds = 1..MaxDeals }
    /\ persons = <<>>
    /\ status_history = <<>>
    /\ ai_insights = <<>>
    /\ response = [op |-> "none", code |-> 0, detail |-> "", body |-> <<>>]
    /\ calls = 0
    /\ deal_info \in [1..MaxDeals -> DealInfoOptions]
    /\ fallback_enabled \in BOOLEAN
    /\ technical_solutions = <<>>
    /\ resource_allocations = {}
    /\ proposals = {}
    /\ agent_call = <<>>
    /\ agent_result = <<>>

-----------------------------------------------------------------------------
(* vietnam_models.py: GradionLeadScorer.                                   *)

mql_threshold == 109
sql_threshold == 110

source_scores ==
    [x \in {"LinkedIn Ads", "Sales Navigator", "Google Ads", "Facebook Ads", "Events",
            "Landing Page", "Whitepaper Download", "Checklist Download",
            "Scorecard Download", "Webinar"} |->
        CASE x = "LinkedIn Ads" -> 25        [] x = "Sales Navigator" -> 30
          [] x = "Google Ads" -> 20          [] x = "Facebook Ads" -> 15
          [] x = "Events" -> 35              [] x = "Landing Page" -> 20
          [] x = "Whitepaper Download" -> 25 [] x = "Checklist Download" -> 20
          [] x = "Scorecard Download" -> 25  [] x = "Webinar" -> 30]

industry_scores ==
    [x \in {"Manufacturing", "Automotive", "Technology", "Consulting",
            "Financial Services"} |->
        CASE x = "Manufacturing" -> 30 [] x = "Automotive" -> 25
          [] x = "Technology" -> 25    [] x = "Consulting" -> 20
          [] x = "Financial Services" -> 15]

region_scores ==
    [x \in {"DACH", "APAC", "Vietnam", "EU", "US"} |->
        CASE x = "DACH" -> 35 [] x = "APAC" -> 30 [] x = "Vietnam" -> 40
          [] x = "EU" -> 25   [] x = "US" -> 15]

\* role_scores in dictionary order.
role_scores ==
    << [key |-> "CEO", score |-> 35], [key |-> "CTO", score |-> 30],
       [key |-> "VP Engineering", score |-> 30],
       [key |-> "Head of Operations", score |-> 25],
       [key |-> "Director", score |-> 25], [key |-> "Manager", score |-> 20],
       [key |-> "Senior", score |-> 15], [key |-> "Junior", score |-> 5] >>

\* The role strings of the model and the keys each contains once both are
\* lower-cased ('director' contains 'cto').
RoleKeys ==
    [x \in {"", "CEO", "cto", "Senior Manager", "Director", "Intern"} |->
        CASE x = "CEO" -> {"CEO"}
          [] x = "cto" -> {"CTO"}
          [] x = "Senior Manager" -> {"Manager", "Senior"}
          [] x = "Director" -> {"CTO", "Director"}
          [] OTHER -> {}]

\* for role_key, role_score in role_scores.items(): ... break
RoleScore(role) ==
    LET hits == { i \in DOMAIN role_scores : role_scores[i].key \in RoleKeys[role] }
    IN IF hits = {} THEN 0
       ELSE role_scores[CHOOSE i \in hits : \A j \in hits : i <= j].score

ActivityScore(activity_type) ==
    CASE activity_type = "whitepaper_download" -> 15
      [] activity_type = "webinar_attend" -> 20
      [] activity_type = "email_open" -> 2
      [] activity_type = "email_click" -> 5
      [] activity_type = "website_visit" -> 3
      [] OTHER -> 0

CompanySizeScore(company_size) ==
    IF company_size >= 1000 THEN 30
    ELSE IF company_size >= 250 THEN 25
    ELSE IF company_size >= 50 THEN 20 ELSE 10

\* The score before the book-consultant override.
BaseScore(lead_data) ==
    (IF lead_data.lead_source \in DOMAIN source_scores
     THEN source_scores[lead_data.lead_source] ELSE 0)
    + (IF lead_data.industry \in DOMAIN industry_scores
       THEN industry_scores[lead_data.industry] ELSE 0)
    + (IF lead_data.region \in DOMAIN region_scores
       THEN region_scores[lead_data.region] ELSE 0)
    + CompanySizeScore(Val(lead_data.company_size))
    + RoleScore(lead_data.decision_maker_role)
    + SeqSum([i \in DOMAIN lead_data.activities |->
                 ActivityScore(lead_data.activities[i])])

StageOf(score, book_consultant) ==
    IF score >= sql_threshold \/ book_consultant THEN "SQL"
    ELSE IF score >= mql_threshold THEN "MQL"
    ELSE "Lead"

\* A scorer without the override.
NoOverride(score, book_consultant) == score

\* if book_consultant: score = max(score, self.sql_threshold)
Override(score, book_consultant) ==
    IF book_consultant THEN Max(score, sql_threshold) ELSE score

\* calculate_vietnam_lead_score: a null company_size cannot be compared
\* with a number and a null role has no lower().
calculate_vietnam_lead_score(lead_data) ==
    IF IsNone(lead_data.company_size) THEN
        [raised |-> TRUE, lead_score |-> 0, stage |-> "TypeError",
         book_consultant_override |-> FALSE]
    ELSE IF lead_data.decision_maker_role = NULL THEN
        [raised |-> TRUE, lead_score |-> 0, stage |-> "AttributeError",
         book_consultant_override |-> FALSE]
    ELSE LET score == Override(BaseScore(lead_data), lead_data.book_consultant)
         IN [raised |-> FALSE, lead_score |-> score,
             stage |-> StageOf(score, lead_data.book_consultant),
             book_consultant_override |-> lead_data.book_consultant]

MaxActivities == 2

ActivityTypes ==
    {"whitepaper_download", "webinar_attend", "email_open", "email_click",
     "website_visit", "form_submit"}

LeadDataInputs ==
    [lead_source : {"", "LinkedIn Ads", "Google Ads", "Events"},
     industry : {"", "Manufacturing", "Automotive", "Financial Services"},
     region : {"", "DACH", "Vietnam", "US"},
     company_size : {None, Some(0), Some(50), Some(250), Some(1000)},
     decision_maker_role : {NULL} \cup DOMAIN RoleKeys,
     activities : UNION { [1..n -> ActivityTypes] : n \in 0..MaxActivities },
     book_consultant : BOOLEAN]

ScorerInit ==
    /\ score_input \in LeadDataInputs
    /\ score_result = <<>>

\* One call of calculate_vietnam_lead_score.
CalculateScore ==
    /\ score_result = <<>>
    /\ score_result' = <<calculate_vietnam_lead_score(score_input)>>
    /\ UNCHANGED score_input

-----------------------------------------------------------------------------
(* vietnam_models.py: RegionAssignmentEngine.                              *)

sales_reps ==
    [x \in {"DACH", "APAC", "Vietnam", "EU", "US"} |->
        CASE x = "DACH" -> <<"Hans Mueller", "Anna Schmidt", "Klaus Weber">>
          [] x = "APAC" -> <<"Nguyen Van A", "Li Wei", "Tanaka San">>
          [] x = "Vietnam" -> <<"Tran Duc B", "Le Thi C", "Pham Van D">>
          [] x = "EU" -> <<"Pierre Dubois", "Marco Rossi">>
          [] x = "US" -> <<"John Smith", "Sarah Johnson">>]

AllReps == UNION { { sales_reps[r][i] : i \in DOMAIN sales_reps[r] } : r \in DOMAIN sales_reps }

MaxAssignments == 5

\* lead_data.get('region', 'EU') for a request without the key (<<>>) or
\* with it.
RegionRequests ==
    { <<>>, <<"DACH">>, <<"APAC">>, <<"Vietnam">>, <<"EU">>, <<"US">>, <<"Mars">>,
      <<NULL>> }

\* An engine that never advances.
StuckIndex(current_index, n) == current_index

\* (current_index + 1) % len(reps)
NextIndex(current_index, n) == (current_index + 1) % n

\* assign_sql_lead.  Python lists count from 0, sequences from 1.
assign_sql_lead(request) ==
    /\ assignments < MaxAssignments
    /\ assignments' = assignments + 1
    /\ LET got == IF request = <<>> THEN "EU" ELSE request[1]
           region == IF got \notin DOMAIN sales_reps THEN "EU" ELSE got
           reps == sales_reps[region]
           current_index == current_assignment[region]
           assigned_rep == reps[(current_index % Len(reps)) + 1]
       IN /\ current_assignment' =
                 [current_assignment EXCEPT ![region] = NextIndex(current_index, Len(reps))]
          /\ assignment' = [request |-> request, region |-> region,
                            assigned_sales_rep |-> assigned_rep]
          /\ assigned_count' = [assigned_count EXCEPT ![assigned_rep] = @ + 1]

AssignInit ==
    /\ current_assignment = [r \in DOMAIN sales_reps |-> 0]
    /\ assignment = <<>>
    /\ assigned_count = [rep \in AllReps |-> 0]
    /\ assignments = 0

-----------------------------------------------------------------------------
(* main.py: the churn endpoints, and ai_models.py: ChurnPredictor.  A      *)
(* probability is a whole number of percent (0.5 is 50).  A Customer_ID    *)
(* string is the number it carries.                                        *)

MaxCustomers == 11
MaxRequests == 3

MinTrainingCustomers == 10
SufficientCustomers == 50
SampleSize == 20
UntrainedProbability == 50

\* `x or default` on a nullable number.
OrDefault(x, default) == IF IsNone(x) \/ Val(x) = 0 THEN default ELSE Val(x)

\* A row of the customers table, by the columns the churn endpoints read.
CustomerRow(churn_flag, customer_code, nps, tickets, usage) ==
    [Churn_Flag |-> churn_flag, Customer_ID |-> customer_code,
     NPS_Score |-> nps, Tickets_Raised |-> tickets, Product_Usage_Hours |-> usage]

\* ChurnPredictor.predict.  What a trained forest answers is not modelled:
\* outcome is the probability it gives, or its IndexError when it was fitted
\* on one class only.
predict(trained, outcome) ==
    IF ~trained
    THEN [raised |-> FALSE, churn_probability |-> UntrainedProbability,
          risk_level |-> "Unknown", prediction_confidence |-> 0]
    ELSE IF outcome.raised
    THEN [raised |-> TRUE, churn_probability |-> 0, risk_level |-> "",
          prediction_confidence |-> 0]
    ELSE [raised |-> FALSE, churn_probability |-> outcome.churn_prob,
          risk_level |-> IF outcome.churn_prob < 30 THEN "Low"
                         ELSE IF outcome.churn_prob < 70 THEN "Medium" ELSE "High",
          prediction_confidence |-> Max(outcome.churn_prob, 100 - outcome.churn_prob)]

\* A train call that forgets to mark the predictor trained.
TrainForgets(table, trained) == trained

\* ChurnPredictor.train: returns early on no customers or one class, else
\* fits and sets is_trained.
train(table, trained) ==
    IF table = <<>> THEN trained
    ELSE IF Cardinality({ table[i].Churn_Flag : i \in DOMAIN table }) < 2 THEN trained
    ELSE TRUE

\* VietnamChurnPredictor.predict_churn_risk on the dictionary the endpoint
\* builds (renewal_months_remaining 6 and cs_touch_frequency 4 add nothing).
predict_churn_risk(customer) ==
    LET nps_score == OrDefault(customer.NPS_Score, 5)
        ticket_count == OrDefault(customer.Tickets_Raised, 0)
        usage_hours == OrDefault(customer.Product_Usage_Hours, 0)
        risk_score == Min(100,
            (IF nps_score <= 3 THEN 40 ELSE IF nps_score <= 6 THEN 20 ELSE 0)
            + (IF ticket_count > 10 THEN 30 ELSE 0)
            + (IF usage_hours < 10 THEN 25 ELSE 0))
    IN [churn_probability |-> risk_score,
        risk_level |-> IF risk_score >= 70 THEN "Critical"
                       ELSE IF risk_score >= 50 THEN "High"
                       ELSE IF risk_score >= 30 THEN "Medium" ELSE "Low"]

\* The methods of CLVCalculator.
CLVCalculatorMethods == {"train", "_prepare_clv_features", "calculate"}

\* customer_id=str(customer.id) and customer_id=<the Customer_ID string>.
StrOfId(id) == [column |-> "id", n |-> id]
CodeString(code) == [column |-> "Customer_ID", n |-> code]

\* .filter(CustomerData.Customer_ID == customer_id).first(): a row with
\* that Customer_ID (no ORDER BY), or none.
ByCustomerCode(code) ==
    { i \in DOMAIN customers : customers[i].Customer_ID = Some(code) }

\* GET /api/ai/churn-prediction/{customer_id}
get_churn_prediction(customer_id, outcome) ==
    /\ calls < MaxRequests
    /\ calls' = calls + 1
    /\ IF customer_id \notin DOMAIN customers
       THEN \* HTTPException(404) raised inside the try block
            /\ response' = ExceptHandler("get_churn_prediction",
                               Raise("get_churn_prediction", 404, "Customer not found"))
            /\ churn_predictions' = churn_predictions
       ELSE LET prediction == predict(is_trained, outcome)
            IN IF prediction.raised
               THEN /\ response' = ExceptHandler("get_churn_prediction",
                                       [detail |-> "Error predicting churn"])
                    /\ churn_predictions' = churn_predictions
               ELSE /\ churn_predictions' = Append(churn_predictions,
                           [customer_id |-> StrOfId(customer_id),
                            churn_probability |-> prediction.churn_probability,
                            model_version |-> "v1.0"])
                    /\ response' =
                           [op |-> "get_churn_prediction", code |-> 200, detail |-> "ok",
                            body |-> [customer_id |-> customer_id,
                                      churn_probability |-> prediction.churn_probability,
                                      risk_level |-> prediction.risk_level,
                                      prediction_confidence |->
                                          prediction.prediction_confidence]]
    /\ UNCHANGED <<customers, is_trained>>

\* POST /api/ai/train-models
train_ai_models ==
    /\ calls < MaxRequests
    /\ calls' = calls + 1
    /\ LET churned_customers == { i \in DOMAIN customers : customers[i].Churn_Flag }
           active_customers == { i \in DOMAIN customers : ~customers[i].Churn_Flag }
       IN IF Len(customers) < MinTrainingCustomers
          THEN /\ response' = Raise("train_ai_models", 400,
                                    "Need at least 10 customers to train the model")
               /\ is_trained' = is_trained
          ELSE IF churned_customers = {} \/ active_customers = {}
          THEN /\ response' = Raise("train_ai_models", 400,
                       "Need both churned and active customers to train the model")
               /\ is_trained' = is_trained
          ELSE /\ is_trained' = train(customers, is_trained)
               /\ response' = [op |-> "train_ai_models", code |-> 200,
                               detail |-> "Models trained successfully",
                               body |-> [total_customers |-> Len(customers),
                                         churned_customers |->
                                             Cardinality(churned_customers),
                                         active_customers |->
                                             Cardinality(active_customers)]]
    /\ UNCHANGED <<customers, churn_predictions>>

\* POST /api/ai/create-sample-data: twenty customers CUST000..CUST019, each
\* churned with probability 0.2; here the first `churned` of them are.
create_sample_data(churned) ==
    /\ calls < MaxRequests
    /\ calls' = calls + 1
    /\ IF Len(customers) >= SufficientCustomers
       THEN /\ customers' = customers
            /\ response' = [Ok("create_sample_data") EXCEPT
                               !.detail = "Already have sufficient data"]
       ELSE /\ customers' = customers \o
                   [i \in 1..SampleSize |->
                       CustomerRow(i <= churned, Some(i - 1), Some(5), Some(0), Some(50))]
            /\ response' = Ok("create_sample_data")
    /\ UNCHANGED <<churn_predictions, is_trained>>

\* GET /api/ai/clv/{customer_id}
get_customer_clv(customer_id) ==
    /\ calls < MaxRequests
    /\ calls' = calls + 1
    /\ response' =
          IF customer_id \notin DOMAIN customers
          THEN ExceptHandler("get_customer_clv",
                   Raise("get_customer_clv", 404, "Customer not found"))
          ELSE IF "calculate_clv" \in CLVCalculatorMethods
          THEN Ok("get_customer_clv")
          ELSE \* clv_calculator.calculate_clv: AttributeError
               ExceptHandler("get_customer_clv", [detail |-> "Error calculating CLV"])
    /\ UNCHANGED <<customers, churn_predictions, is_trained>>

\* GET /api/vietnam/churn-prediction/{customer_id}
get_vietnam_churn_prediction(customer_id) ==
    /\ calls < MaxRequests
    /\ calls' = calls + 1
    /\ IF ByCustomerCode(customer_id) = {}
       THEN /\ response' = ExceptHandler("get_vietnam_churn_prediction",
                               Raise("get_vietnam_churn_prediction", 404,
                                     "Customer not found"))
            /\ churn_predictions' = churn_predictions
       ELSE \E i \in ByCustomerCode(customer_id) :
               LET result == predict_churn_risk(customers[i])
               IN /\ churn_predictions' = Append(churn_predictions,
                         [customer_id |-> CodeString(customer_id),
                          churn_probability |-> result.churn_probability,
                          model_version |-> "vietnam_v1.0"])
                  /\ response' = [op |-> "get_vietnam_churn_prediction", code |-> 200,
                                  detail |-> "ok", body |-> result]
    /\ UNCHANGED <<customers, is_trained>>

\* What a trained forest may answer for a customer.
ForestOutcomes ==
    { [raised |-> TRUE, churn_prob |-> 0] }
    \cup { [raised |-> FALSE, churn_prob |-> q] : q \in {10, 50, 90} }

\* Customers tables at start: n customers, the first k of them churned, with
\* Customer_IDs 1001, 1002, ...; all without usage data, or all unhappy.
InitialCustomers ==
    { [i \in 1..n |-> IF unhappy
                      THEN CustomerRow(i <= k, Some(1000 + i), Some(2), Some(12), Some(5))
                      ELSE CustomerRow(i <= k, Some(1000 + i), None, None, None)] :
        n \in 0..MaxCustomers, k \in 0..MaxCustomers, unhappy \in BOOLEAN }

CustomerIdRequests == {1, MaxCustomers + SampleSize + 1}

CustomerCodeRequests == {0, 1001, 9999}

SampleChurned == {0, 1, SampleSize}

ChurnInit ==
    /\ customers \in InitialCustomers
    /\ churn_predictions = <<>>
    /\ is_trained = FALSE
    /\ response = [op |-> "none", code |-> 0, detail |-> "", body |-> <<>>]
    /\ calls = 0
    /\ deals = <<>>
    /\ persons = <<>>
    /\ status_history = <<>>
    /\ ai_insights = <<>>

-----------------------------------------------------------------------------
(* Specifications.  Each one runs one subsystem; the variables of the      *)
(* others keep their idle value.                                           *)

DealIdle ==
    /\ deals = <<>>
    /\ persons = <<>>
    /\ status_history = <<>>
    /\ ai_insights = <<>>
    /\ response = [op |-> "none", code |-> 0, detail |-> "", body |-> <<>>]
    /\ calls = 0

BudgetIdle == budget_input = <<>> /\ budget_result = <<>>

AgentIdle == agent_call = <<>> /\ agent_result = <<>>

InsightIdle ==
    /\ deal_info = <<>>
    /\ fallback_enabled = TRUE
    /\ technical_solutions = <<>>
    /\ resource_allocations = {}
    /\ proposals = {}

ScorerIdle == score_input = <<>> /\ score_result = <<>>

AssignIdle ==
    /\ current_assignment = <<>>
    /\ assignment = <<>>
    /\ assigned_count = <<>>
    /\ assignments = 0

ChurnIdle ==
    /\ customers = <<>>
    /\ churn_predictions = <<>>
    /\ is_trained = FALSE

\* The deal board: the REST handlers on the deals table.
Init ==
    /\ DealInit
    /\ BudgetIdle /\ AgentIdle /\ InsightIdle /\ ScorerIdle /\ AssignIdle
    /\ ChurnIdle

Next ==
    \/ /\ \E st \in DealStatusValues, pr \in {"medium"}, a \in {None} :
              create_deal(st, pr, a)
       /\ UNCHANGED <<budgetVars, agentVars, insightVars, scorerVars, assignVars, churnVars>>
    \/ /\ \E id \in DealIds, body \in DealUpdateBodies : update_deal(id, body)
       /\ UNCHANGED <<budgetVars, agentVars, insightVars, scorerVars, assignVars, churnVars>>
    \/ /\ \E id \in DealIds, ns \in StatusRequests, pos \in Positions :
              update_deal_status(id, ns, pos)
       /\ UNCHANGED <<budgetVars, agentVars, insightVars, scorerVars, assignVars, churnVars>>
    \/ /\ \E id \in DealIds : delete_deal(id)
       /\ UNCHANGED <<budgetVars, agentVars, insightVars, scorerVars, assignVars, churnVars>>
    \/ /\ get_sprint_board
       /\ UNCHANGED <<budgetVars, agentVars, insightVars, scorerVars, assignVars, churnVars>>

Spec == Init /\ [][Next]_vars

\* parse_budget_value on one input.
InitBudget ==
    /\ BudgetInit
    /\ DealIdle /\ AgentIdle /\ InsightIdle /\ ScorerIdle /\ AssignIdle
    /\ ChurnIdle

NextBudget ==
    /\ ParseBudget
    /\ UNCHANGED <<dealVars, agentVars, insightVars, scorerVars, assignVars, churnVars>>

SpecBudget == InitBudget /\ [][NextBudget]_vars

\* One analyze call of one agent.
InitAgents ==
    /\ AgentInit
    /\ DealIdle /\ BudgetIdle /\ InsightIdle /\ ScorerIdle /\ AssignIdle
    /\ ChurnIdle

NextAgents ==
    /\ Analyze
    /\ UNCHANGED <<dealVars, budgetVars, insightVars, scorerVars, assignVars, churnVars>>

SpecAgents == InitAgents /\ [][NextAgents]_vars

\* The AI endpoints on stored deals.
InitInsight ==
    /\ InsightInit
    /\ BudgetIdle /\ ScorerIdle /\ AssignIdle
    /\ ChurnIdle

NextInsight ==
    \/ /\ \E id \in DealIds, st \in CurrentStatusRequests, ai \in AiOutcomes :
              trigger_ai_insight(id, st, ai)
       /\ UNCHANGED <<budgetVars, scorerVars, assignVars, churnVars>>
    \/ /\ \E id \in DealIds, ai \in AiOutcomes : trigger_ai_qualification(id, ai)
       /\ UNCHANGED <<budgetVars, scorerVars, assignVars, churnVars>>

SpecInsight == InitInsight /\ [][NextInsight]_vars

\* calculate_vietnam_lead_score on one lead.
InitScorer ==
    /\ ScorerInit
    /\ DealIdle /\ BudgetIdle /\ AgentIdle /\ InsightIdle /\ AssignIdle
    /\ ChurnIdle

NextScorer ==
    /\ CalculateScore
    /\ UNCHANGED <<dealVars, budgetVars, agentVars, insightVars, assignVars, churnVars>>

SpecScorer == InitScorer /\ [][NextScorer]_vars

\* A sequence of assign_sql_lead calls on one engine.
InitAssign ==
    /\ AssignInit
    /\ DealIdle /\ BudgetIdle /\ AgentIdle /\ InsightIdle /\ ScorerIdle
    /\ ChurnIdle

NextAssign ==
    /\ \E request \in RegionRequests : assign_sql_lead(request)
    /\ UNCHANGED <<dealVars, budgetVars, agentVars, insightVars, scorerVars, churnVars>>

SpecAssign == InitAssign /\ [][NextAssign]_vars

\* The deal board when no request names a board position: creates, status
\* moves with board_position absent, and deletes.
NextMoves ==
    \/ /\ \E st \in DealStatusValues, pr \in {"medium"}, a \in {None} :
              create_deal(st, pr, a)
       /\ UNCHANGED <<budgetVars, agentVars, insightVars, scorerVars, assignVars, churnVars>>
    \/ /\ \E id \in DealIds, ns \in StatusRequests : update_deal_status(id, ns, None)
       /\ UNCHANGED <<budgetVars, agentVars, insightVars, scorerVars, assignVars, churnVars>>
    \/ /\ \E id \in DealIds : delete_deal(id)
       /\ UNCHANGED <<budgetVars, agentVars, insightVars, scorerVars, assignVars, churnVars>>

SpecMoves == Init /\ [][NextMoves]_vars

\* The churn endpoints on the customers table and one churn predictor.
InitChurn ==
    /\ ChurnInit
    /\ BudgetIdle /\ AgentIdle /\ InsightIdle /\ ScorerIdle /\ AssignIdle

ChurnFrame ==
    UNCHANGED <<deals, persons, status_history, ai_insights,
                budgetVars, agentVars, insightVars, scorerVars, assignVars>>

NextChurn ==
    \/ /\ \E id \in CustomerIdRequests, outcome \in ForestOutcomes :
              get_churn_prediction(id, outcome)
       /\ ChurnFrame
    \/ train_ai_models /\ ChurnFrame
    \/ /\ \E churned \in SampleChurned : create_sample_data(churned)
       /\ ChurnFrame
    \/ /\ \E id \in CustomerIdRequests : get_customer_clv(id)
       /\ ChurnFrame
    \/ /\ \E code \in CustomerCodeRequests : get_vietnam_churn_prediction(code)
       /\ ChurnFrame

SpecChurn == InitChurn /\ [][NextChurn]_vars

-----------------------------------------------------------------------------
(* Properties of the deal board (Spec).                                    *)

\* C1: after any sequence of create_deal, update_deal, update_deal_status
\* and delete_deal calls every stored deal has a status that is one of the
\* six lower-case DealStatus values.
C1_StatusAmongSix ==
    \A d \in DOMAIN deals : deals[d].status \in DealStatusValues

\* A get_sprint_board step and what it answers.
BoardStep == get_sprint_board /\ response'.op = "get_sprint_board"

BoardColumns == response'.body.columns

InvalidStatusStep ==
    \E id \in DOMAIN deals, ns \in StatusRequests, pos \in Positions :
        /\ ns \notin DealStatusValues
        /\ str_upper(ns) \notin DealStatusNames
        /\ update_deal_status(id, ns, pos)

\* C7: update_deal_status with an invalid new_status answers HTTP 400
\* 'Invalid status' and leaves the deals, the status history and the AI
\* insights as they were.
C7_InvalidStatusIs400 ==
    [][InvalidStatusStep =>
        /\ response'.code = 400
        /\ response'.detail = "Invalid status"
        /\ UNCHANGED <<deals, status_history, ai_insights>>
    ]_vars

\* C13: an update_deal_status call that succeeds appends exactly one
\* StatusHistory row, for its deal, whose previous_status is the deal's
\* status before the call and whose new_status is its status after it, both
\* lower-case (also when the two are equal); a call that fails appends no
\* row and leaves the deals as they were.
C13_OneHistoryRowPerMove ==
    [][\A id \in DealIds, ns \in StatusRequests, pos \in Positions :
          (response'.op = "update_deal_status" /\ update_deal_status(id, ns, pos)) =>
              IF response'.code = 200
              THEN /\ Len(status_history') = Len(status_history) + 1
                   /\ SubSeq(status_history', 1, Len(status_history)) = status_history
                   /\ LET row == status_history'[Len(status_history')]
                      IN /\ row.deal_id = Some(id)
                         /\ row.previous_status = deals[id].status
                         /\ row.new_status = deals'[id].status
                         /\ row.previous_status \in DealStatusValues
                         /\ row.new_status \in DealStatusValues
              ELSE /\ status_history' = status_history
                   /\ deals' = deals
    ]_vars

\* C14: when no request so far named a board position, a deal that
\* create_deal stores, or that update_deal_status moves, gets a
\* board_position strictly greater than that of every other deal in its
\* status.
C14_PlacedAtEndOfColumn ==
    [][/\ \A id \in DealIds, ns \in StatusRequests :
             (/\ response'.op = "update_deal_status"
              /\ response'.code = 200
              /\ update_deal_status(id, ns, None)) =>
                 \A e \in (DOMAIN deals') \ {id} :
                     deals'[e].status = deals'[id].status =>
                         Val(deals'[id].board_position) > Val(deals'[e].board_position)
       /\ \A st \in DealStatusValues :
             (/\ response'.op = "create_deal"
              /\ response'.code = 200
              /\ create_deal(st, "medium", None)) =>
                 \A e \in DOMAIN deals :
                     deals[e].status = st =>
                         Val(deals'[NextDealId].board_position)
                             > Val(deals[e].board_position)
    ]_vars

\* The role the claim gives for each status.
C15_RoleOf ==
    [lead               |-> "sales",
     qualified_solution |-> "head_of_engineering",
     qualified_delivery |-> "head_of_delivery",
     qualified_cso      |-> "cso",
     deal               |-> "sales",
     project            |-> "project_manager"]

\* C15: after an update_deal_status call that succeeds, the deal's
\* assigned_person_id is the id of a person whose role is the one mapped to
\* the new status, or null when no person has that role, whoever was
\* assigned before.
C15_AssigneeByRole ==
    [][\A id \in DealIds, ns \in StatusRequests, pos \in Positions :
          (/\ response'.op = "update_deal_status"
           /\ response'.code = 200
           /\ update_deal_status(id, ns, pos)) =>
              LET role == C15_RoleOf[deals'[id].status]
                  holders == { p \in DOMAIN persons : persons[p] = role }
                  assignee == deals'[id].assigned_person_id
              IN IF holders = {}
                 THEN IsNone(assignee)
                 ELSE ~IsNone(assignee) /\ Val(assignee) \in holders
    ]_vars

\* C15 witness: a deal assigned to the project manager (person 5) was moved
\* to 'lead' and is now assigned to a sales person.
C15_Witness ==
    /\ response.op = "update_deal_status"
    /\ response.code = 200
    /\ \E i \in DOMAIN status_history :
          /\ status_history[i].previous_status = "project"
          /\ status_history[i].new_status = "lead"
          /\ status_history[i].deal_id # None
          /\ Val(status_history[i].deal_id) \in DOMAIN deals
          /\ deals[Val(status_history[i].deal_id)].status = "lead"
          /\ deals[Val(status_history[i].deal_id)].assigned_person_id \in {Some(1), Some(6)}
    /\ Len(status_history) = 2

\* C16: update_deal_status enforces no pipeline order: for a stored deal
\* in any of the six statuses and any of the six statuses as target, the
\* call is possible and succeeds with the deal in the target status.
C16_AnyStatusToAnyStatus ==
    \A id \in DOMAIN deals, target \in DealStatusValues :
        (calls < MaxCalls /\ DealResponseValid(deals[id])) =>
            ENABLED (/\ update_deal_status(id, target, None)
                     /\ response'.code = 200
                     /\ deals'[id].status = target)

\* C16 witness: a deal went from 'project' back to 'lead' and then from
\* 'lead' straight to 'project'.
C16_Witness ==
    /\ response.op = "update_deal_status"
    /\ response.code = 200
    /\ Len(status_history) = 2
    /\ status_history[1].deal_id = status_history[2].deal_id
    /\ status_history[1].previous_status = "project"
    /\ status_history[1].new_status = "lead"
    /\ status_history[2].previous_status = "lead"
    /\ status_history[2].new_status = "project"

-----------------------------------------------------------------------------
(* Properties of the agents (SpecAgents).                                  *)

\* C2: with the fallback enabled, an agent whose chat call raises or whose
\* response is not JSON returns the rule-based result with confidence 70
\* instead of raising, whatever the inputs (nulls included); with the
\* fallback disabled the exception reaches the caller.
C2_FallbackNeverRaises ==
    (agent_result # <<>> /\ agent_call.ai.kind \in {"raises", "unparsable"}) =>
        IF agent_call.fallback_enabled
        THEN /\ ~agent_result[1].raised
             /\ agent_result[1].source = "fallback"
             /\ agent_result[1].confidence = 70
        ELSE agent_result[1].raised

-----------------------------------------------------------------------------
(* Properties of the trigger helpers (SpecInsight).                        *)

\* The scores the claim names for the defaults, as score and confidence.
DefaultScores ==
    [lead_qualification  |-> <<70, 65>>,
     solution_design     |-> <<85, 75>>,
     delivery_planning   |-> <<80, 70>>,
     proposal_generation |-> <<75, 60>>]

\* C3: when the agent's analyze call raises, the trigger helper still
\* answers 200 with its default scores (lead qualification: score 70,
\* confidence 65) and stores exactly one AIInsight, for that deal.
C3_DefaultWhenAgentRaises ==
    [][(calls' = calls + 1 /\ agent_result' # <<>> /\ agent_result'[1].raised) =>
        LET helper == agent_call'.agent
            last == ai_insights'[Len(ai_insights')]
        IN /\ response'.code = 200
           /\ response'.body.helper = helper
           /\ response'.body.score = DefaultScores[helper][1]
           /\ response'.body.confidence = DefaultScores[helper][2]
           /\ Len(ai_insights') = Len(ai_insights) + 1
           /\ SubSeq(ai_insights', 1, Len(ai_insights)) = ai_insights
           /\ last.deal_id = Some(response'.body.deal_id)
           /\ last.insight_type = helper
           /\ last.confidence_score = Some(DefaultScores[helper][2])
    ]_vars

\* C3 witness: the proposal agent raised although its fallback is enabled,
\* and the helper answered with the proposal defaults.
C3_Witness ==
    /\ agent_result # <<>>
    /\ agent_result[1].raised
    /\ agent_call.agent = "proposal_generation"
    /\ agent_call.fallback_enabled
    /\ response.code = 200
    /\ response.body.score = 75
    /\ Len(ai_insights) = 2

-----------------------------------------------------------------------------
(* Properties of parse_budget_value (SpecBudget).                          *)

\* C4: for a range 'A - B', each side with or without '$', commas and a
\* k or m suffix, parse_budget_value returns the arithmetic mean of the
\* two amounts.
C4_RangeIsMean ==
    (budget_result # <<>> /\ budget_input.kind = "range") =>
        LET low == AmountValue(budget_input.a)
            high == AmountValue(budget_input.b)
        IN budget_result[1] =
               Frac(low.num * high.den + high.num * low.den, 2 * low.den * high.den)

\* C4 witness: '$252k - $327k' has been parsed and gave 289500.
C4_Witness ==
    /\ budget_result = <<[num |-> 289500, den |-> 1]>>
    /\ BudgetArg(budget_input).chars =
           <<"$", "2", "5", "2", "k", " ", "-", " ", "$", "3", "2", "7", "k">>

\* C5: for other input parse_budget_value returns 0 for None, '', 0 and
\* '0', the number itself for an int or a float, and for a text the number
\* left without '$', ',' and spaces, times 1,000 for a trailing k or K and
\* times 1,000,000 for a trailing m or M.
C5_SingleValue ==
    (budget_result # <<>> /\ budget_input.kind # "range") =>
        LET a == budget_input.a
            number == Frac(DigitSeqValue(a.whole) * Pow10(Len(a.decimals))
                               + DigitSeqValue(a.decimals),
                           Pow10(Len(a.decimals)))
            factor == IF a.suffix \in {"k", "K"} THEN 1000
                      ELSE IF a.suffix \in {"m", "M"} THEN 1000000 ELSE 1
            g == GCD(factor, number.den)
        IN budget_result[1] =
               CASE budget_input.kind \in {"none", "empty"} -> [num |-> 0, den |-> 1]
                 [] budget_input.kind = "int" -> [num |-> budget_input.n, den |-> 1]
                 [] budget_input.kind = "float" -> Frac(budget_input.n, 2)
                 [] budget_input.kind = "single" ->
                        Frac(number.num * (factor \div g), number.den \div g)

\* C5 witness: '1.5M' has been parsed and gave 1500000.
C5_Witness ==
    /\ budget_result = <<[num |-> 1500000, den |-> 1]>>
    /\ BudgetArg(budget_input).chars = <<"1", ".", "5", "M">>

-----------------------------------------------------------------------------
(* Properties of the lead scorer (SpecScorer).                             *)

\* C8: without book_consultant, a score of 109 or less gives stage 'MQL'
\* and a score of 110 or more gives stage 'SQL'.
C8_StageByThreshold ==
    (score_result # <<>> /\ ~score_result[1].raised /\ ~score_input.book_consultant) =>
        /\ score_result[1].lead_score <= 109 => score_result[1].stage = "MQL"
        /\ score_result[1].lead_score >= 110 => score_result[1].stage = "SQL"

-----------------------------------------------------------------------------
(* Properties of the region assignment engine (SpecAssign).                *)

RepsOf(region) == { sales_reps[region][i] : i \in DOMAIN sales_reps[region] }

RECURSIVE CountSum(_, _)
CountSum(count, reps) ==
    IF reps = {} THEN 0
    ELSE LET rep == CHOOSE x \in reps : TRUE
         IN count[rep] + CountSum(count, reps \ {rep})

\* C10: every assign_sql_lead call serves the requested region (EU when
\* the region is missing or unknown) with the rep that follows, in list
\* order and wrapping, the one served last in that region; afterwards the
\* counts of any two reps of one region differ by at most 1, every index
\* is within its list, and the indices of the other regions are as before.
C10_RoundRobinPerRegion ==
    [][assignments' = assignments + 1 =>
        LET request == assignment'.request
            region == IF request # <<>> /\ request[1] \in DOMAIN sales_reps
                      THEN request[1] ELSE "EU"
            reps == sales_reps[region]
            before == CountSum(assigned_count, RepsOf(region))
        IN /\ assignment'.region = region
           /\ assignment'.assigned_sales_rep = reps[(before % Len(reps)) + 1]
           /\ \A r \in DOMAIN sales_reps :
                 /\ current_assignment'[r] \in 0..(Len(sales_reps[r]) - 1)
                 /\ r # region => current_assignment'[r] = current_assignment[r]
                 /\ \A a \in RepsOf(r), b \in RepsOf(r) :
                        assigned_count'[a] - assigned_count'[b] <= 1
    ]_vars

\* C10 witness: the third lead for EU, asked for under an unknown region,
\* went to the first EU rep again.
C10_Witness ==
    /\ assignment # <<>>
    /\ assignment.request = <<"Mars">>
    /\ assignment.assigned_sales_rep = "Pierre Dubois"
    /\ assigned_count["Pierre Dubois"] = 2
    /\ assigned_count["Marco Rossi"] = 1

-----------------------------------------------------------------------------
(* Properties of the churn endpoints (SpecChurn).                          *)

\* A request of one of the three customer endpoints for a customer that
\* does not exist.
MissingCustomerStep ==
    \/ \E id \in CustomerIdRequests, outcome \in ForestOutcomes :
          id \notin DOMAIN customers /\ get_churn_prediction(id, outcome)
    \/ \E id \in CustomerIdRequests :
          id \notin DOMAIN customers /\ get_customer_clv(id)
    \/ \E code \in CustomerCodeRequests :
          ByCustomerCode(code) = {} /\ get_vietnam_churn_prediction(code)

\* C11: the churn-prediction, CLV and Vietnam churn-prediction endpoints
\* answer HTTP 404 'Customer not found' for a customer id that does not
\* exist, and store no ChurnPredictions row.
C11_MissingCustomerIs404 ==
    [][MissingCustomerStep =>
        /\ response'.code = 404
        /\ response'.detail = "Customer not found"
        /\ churn_predictions' = churn_predictions
    ]_vars

\* C12: train-models answers 400 and leaves is_trained as it was when there
\* are fewer than 10 customers or no churned or no non-churned one, and
\* otherwise trains the predictor (is_trained true afterwards) and reports
\* success; no request sets is_trained back to false; and while it is false
\* a prediction has churn_probability 0.5, risk_level 'Unknown' and
\* prediction_confidence 0.0.
C12_TrainingGate ==
    [][/\ train_ai_models =>
             IF \/ Len(customers) < 10
                \/ \A i \in DOMAIN customers : customers[i].Churn_Flag
                \/ \A i \in DOMAIN customers : ~customers[i].Churn_Flag
             THEN response'.code = 400 /\ is_trained' = is_trained
             ELSE /\ is_trained'
                  /\ response'.code = 200
                  /\ response'.detail = "Models trained successfully"
       /\ is_trained => is_trained'
       /\ \A id \in CustomerIdRequests, outcome \in ForestOutcomes :
             (/\ ~is_trained
              /\ id \in DOMAIN customers
              /\ get_churn_prediction(id, outcome)) =>
                 /\ response'.code = 200
                 /\ response'.body.churn_probability = 50
                 /\ response'.body.risk_level = "Unknown"
                 /\ response'.body.prediction_confidence = 0
    ]_vars

\* C12 witness: a prediction was made before training (probability 0.5
\* stored), then train-models succeeded and the predictor is trained.
C12_Witness ==
    /\ is_trained
    /\ response.op = "train_ai_models"
    /\ response.code = 200
    /\ Len(churn_predictions) = 1
    /\ churn_predictions[1].model_version = "v1.0"
    /\ churn_predictions[1].churn_probability = 50

====
